---- MODULE Spec2Model ----
(***************************************************************************)
(* Session management of the StarterKIT API: AuthService (register, login, *)
(* refresh-token rotation, logout) over AuthRepository (one users table),  *)
(* with bcryptjs hashing and jsonwebtoken signing modelled by what the     *)
(* libraries compute.  Each async method is cut at its awaits on the       *)
(* repository: synchronous code between two awaits is one atomic step.     *)
(***************************************************************************)
EXTENDS Integers, Sequences, FiniteSets, TLC

VARIABLES
    users,      \* the users table: id -> row
    nextId,     \* the serial primary key's next value
    env,        \* the parsed environment (JWT secrets)
    now,        \* wall clock, in minutes
    rng,        \* number of values drawn so far from the random source
    issued,     \* every token a response has handed to a client
    calls,      \* the calls suspended at an await, each with its locals
    last,       \* the response sent by the most recent step that ended a call
    dead,       \* refresh tokens that a completed call should have retired
    resources,  \* the resources table: id -> row
    nextResourceId, \* the next value of the resources' serial primary key
    updatedAt,  \* the users table's updatedAt column: id -> instant
    proc        \* the server process: its listener, services, timers and exit

vars == <<users, nextId, env, now, rng, issued, calls, last, dead, resources,
          nextResourceId, updatedAt, proc>>

----------------------------------------------------------------------------
\* Bounds of the model

MaxInFlight == 2     \* calls that may be suspended together
MaxRand == 10        \* random draws (salts and token ids) in one run
MaxTime == 10080     \* last minute the clock reaches

Emails == {"a@b.com"}
Passwords == {"Password123!", "wrong"}
MinPasswordLen == 8
AccessSecret == "0123456789abcdef0123456789abcdef"
RefreshSecret == "fedcba9876543210fedcba9876543210"
UserIds == 1..Cardinality(Emails)

----------------------------------------------------------------------------
\* Strings.  A secret handed to bcrypt is a sequence of symbols, each symbol
\* a short text; a plain text is the sequence of its characters.

NUL == "\\0"

Chars(s) == [i \in 1..Len(s) |-> SubSeq(s, i, i)]

\* base64url without padding: output character j (from 0) carries bits
\* 6j..6j+5 of the input, that is bytes (6j \div 8)..((6j+5) \div 8).  The
\* character is written as the input bytes it is computed from.  The
\* argument is a text, the result a sequence of symbols.
Base64Url(s) ==
    LET n == Len(s)
        m == (4 * n + 2) \div 3
        lo(j) == (6 * j) \div 8
        hi(j) == IF (6 * j + 5) \div 8 < n THEN (6 * j + 5) \div 8 ELSE n - 1
    IN  [k \in 1..m |-> SubSeq(s, lo(k - 1) + 1, hi(k - 1) + 1)]

----------------------------------------------------------------------------
\* bcryptjs

BCRYPT_ROUNDS == 12
BCRYPT_KEY_BYTES == 72

NULL == [cost |-> 0, salt |-> 0, digest |-> <<>>]

\* The Blowfish key schedule reads 18 words of 4 bytes from the secret
\* followed by a NUL byte, cycling over it when it is shorter: bytes past
\* the 72nd are never read.
BcryptKey(secret) ==
    LET key == Append(secret, NUL)
    IN  [i \in 1..BCRYPT_KEY_BYTES |-> key[((i - 1) % Len(key)) + 1]]

\* bcrypt.hashSync(secret, salt): the digest is a function of cost, salt and
\* the 72 key bytes, and is written as that triple.
hashSync(secret, salt) ==
    [cost |-> BCRYPT_ROUNDS, salt |-> salt, digest |-> BcryptKey(secret)]

\* bcrypt.compareSync(secret, hash): rehash with the cost and salt embedded
\* in the hash and compare.
compareSync(secret, hash) ==
    /\ hash # NULL
    /\ [cost |-> hash.cost, salt |-> hash.salt, digest |-> BcryptKey(secret)] = hash

hashPassword(secret, salt) == hashSync(secret, salt)

verifyPassword(secret, hash) == compareSync(secret, hash)

----------------------------------------------------------------------------
\* jsonwebtoken

JWT_ACCESS_EXPIRY == 15         \* "15m", in minutes
JWT_REFRESH_EXPIRY == 10080     \* "7d", in minutes

NoToken == [key |-> "", userId |-> 0, email |-> "", role |-> "", iat |-> 0, exp |-> 0, jti |-> 0]
Forged == [key |-> "forged", userId |-> 0, email |-> "", role |-> "", iat |-> 0, exp |-> 0, jti |-> 0]

JwtHeader == "{\"alg\":\"HS256\",\"typ\":\"JWT\"}"

\* The payload in the order jwt.sign builds it: the caller's claims, then
\* iat, exp and jti.
JwtPayload(t) ==
    "{\"userId\":" \o ToString(t.userId) \o ",\"email\":\"" \o t.email
        \o "\",\"role\":\"" \o t.role \o "\",\"iat\":" \o ToString(t.iat)
        \o ",\"exp\":" \o ToString(t.exp) \o ",\"jti\":\"" \o ToString(t.jti) \o "\"}"

\* The compact serialization header.payload.signature; the signature is the
\* HMAC of the first two parts under the key, written as one symbol.
TokenString(t) ==
    Base64Url(JwtHeader) \o <<".">> \o Base64Url(JwtPayload(t))
        \o <<".", "HS256(" \o t.key \o "," \o JwtPayload(t) \o ")">>

\* jwt.sign(payload, secret, {expiresIn, jwtid})
sign(userId, email, role, secret, expiresIn, jwtid) ==
    [key |-> secret, userId |-> userId, email |-> email, role |-> role,
     iat |-> now, exp |-> now + expiresIn, jti |-> jwtid]

\* jwt.verify(token, secret): the signature is the one the secret produces
\* and the token has not expired.
verify(t, secret) == t.key = secret /\ now < t.exp

----------------------------------------------------------------------------
\* Rows, projections, call locals and responses

ROLES == {"ADMIN", "USER", "MODERATOR"}

NoUser == [id |-> 0, email |-> "", passwordHash |-> NULL, role |-> "", refreshTokenHash |-> NULL]

NoPublic == [id |-> 0, email |-> "", role |-> ""]

NoStale == [rotated |-> FALSE, superseded |-> FALSE, loggedOut |-> FALSE]

Locals == [pc |-> "", user |-> NoUser, accessToken |-> NoToken, refreshToken |-> NoToken,
           hash |-> NULL, token |-> NoToken, stale |-> NoStale, id |-> 0, role |-> "",
           userId |-> 0, owner |-> 0, storedRole |-> "", title |-> "",
           page |-> 0, limit |-> 0, first |-> "", items |-> <<>>, total |-> 0]

NoResource == [id |-> 0, userId |-> 0, title |-> ""]

\* A request body without a title or any other key
NoData == [title |-> "", userId |-> 0]

NoPagination == [page |-> 0, limit |-> 0, total |-> 0, totalPages |-> 0]

\* The data of a response body: null is the three fields absent
NoBody == [user |-> NoPublic, accessToken |-> NoToken, refreshToken |-> NoToken]

\* A response: the ServiceResponse fields (status, message, user, accessToken,
\* refreshToken) and, for the record, what the call was given (token, userId),
\* whether the presented token was retired when the call started (stale) or
\* while it was suspended (raced), whether a repository call threw (threw),
\* whether the call wrote (wrote), the session hash it read or replaced
\* (before), whether the store rejected the write for a duplicate key
\* (conflict), and what the controller sent: the data of the body (body) and
\* the refresh cookie it set (cookie); email is the address the call was given,
\* list the users a listing returned.  For a resource operation: the resource
\* id (id), the actor's id (userId) and role (role) it was called with, the
\* owner of the resource it found (owner), the actor's role in the users table
\* when the access was decided (storedRole) and the resource returned; for a
\* listing the items and the pagination; for a create the body it was given
\* (data).
NoResp == [op |-> "none", status |-> 0, message |-> "", user |-> NoPublic,
           accessToken |-> NoToken, refreshToken |-> NoToken, token |-> NoToken,
           userId |-> 0, stale |-> NoStale, raced |-> FALSE, threw |-> FALSE,
           wrote |-> FALSE, before |-> NULL, conflict |-> FALSE,
           body |-> NoBody, cookie |-> NoToken, email |-> "", list |-> {},
           id |-> 0, role |-> "", owner |-> 0, storedRole |-> "",
           resource |-> NoResource, items |-> <<>>, pagination |-> NoPagination,
           data |-> NoData]

\* A projection that drops nothing
sanitizeUser_Passthrough(user) == user

sanitizeUser(user) == [id |-> user.id, email |-> user.email, role |-> user.role]

\* UserService's own copy of the projection
UserService_sanitizeUser(user) == [id |-> user.id, email |-> user.email, role |-> user.role]

\* ServiceResponse.failure(message, null, statusCode)
failure(op, message, statusCode) ==
    [NoResp EXCEPT !.op = op, !.status = statusCode, !.message = message]

\* The catch block of a service method: the repository call threw
caught(op, message) == [failure(op, message, 500) EXCEPT !.threw = TRUE]

\* res.status(serviceResponse.statusCode).send(serviceResponse): the body is
\* the service's response as it is
send(serviceResponse) ==
    [serviceResponse EXCEPT !.body = [user |-> serviceResponse.user,
                                      accessToken |-> serviceResponse.accessToken,
                                      refreshToken |-> serviceResponse.refreshToken]]

\* serviceResponse.success && serviceResponse.data
Succeeded(serviceResponse) ==
    /\ serviceResponse.status < 400
    /\ \/ serviceResponse.user # NoPublic
       \/ serviceResponse.accessToken # NoToken
       \/ serviceResponse.refreshToken # NoToken

\* A login handler that sets the cookie and sends the service's response as it
\* is, token pair included
login_SendsServiceResponse(serviceResponse) ==
    IF Succeeded(serviceResponse)
    THEN [send(serviceResponse) EXCEPT !.cookie = serviceResponse.refreshToken]
    ELSE send(serviceResponse)

\* AuthController.login: on success the refresh token goes into the cookie
\* and the body is rebuilt from the user and the access token
login(serviceResponse) ==
    IF Succeeded(serviceResponse)
    THEN [serviceResponse EXCEPT
            !.cookie = serviceResponse.refreshToken,
            !.body = [user |-> serviceResponse.user,
                      accessToken |-> serviceResponse.accessToken,
                      refreshToken |-> NoToken]]
    ELSE send(serviceResponse)

\* AuthController.refresh, after the service call: on success the rotated
\* refresh token goes into the cookie and the body carries the access token
refresh(serviceResponse) ==
    IF Succeeded(serviceResponse)
    THEN [serviceResponse EXCEPT
            !.cookie = serviceResponse.refreshToken,
            !.body = [user |-> NoPublic,
                      accessToken |-> serviceResponse.accessToken,
                      refreshToken |-> NoToken]]
    ELSE send(serviceResponse)

\* prisma.user.findUnique({ where: { email } })
findByEmailAsync(email) ==
    IF \E id \in DOMAIN users : users[id].email = email
    THEN users[CHOOSE id \in DOMAIN users : users[id].email = email]
    ELSE NoUser

\* prisma.user.findUnique({ where: { id } })
findByIdAsync(userId) == IF userId \in DOMAIN users THEN users[userId] ELSE NoUser

\* The unique index on users.email rejects a row whose email is taken
UniqueViolation_NoIndex(userData) == FALSE

UniqueViolation(userData) == findByEmailAsync(userData.email) # NoUser

\* prisma.user.create({ data }): the next serial id
createUserAsync(userData) == (nextId :> [userData EXCEPT !.id = nextId]) @@ users

\* UserRepository.findAllAsync: select from users
findAllAsync == {users[id] : id \in DOMAIN users}

\* UserRepository.updateUserAsync: update users set (every column of userData)
\* where id
updateUserAsync(id, userData) == [users EXCEPT ![id] = userData]

\* db.delete(users).where(eq(users.id, id))
deleteUserAsync(id) == [i \in DOMAIN users \ {id} |-> users[i]]

\* resources.userId references users.id with onDelete: "cascade"
cascade(id) == [i \in {i \in DOMAIN resources : resources[i].userId # id} |-> resources[i]]

\* prisma.resource.findUnique({ where: { id } })
ResourceRepository_findByIdAsync(id) ==
    IF id \in DOMAIN resources THEN resources[id] ELSE NoResource

\* prisma.resource.update({ where: { id }, data })
updateAsync(id, data) == [resources EXCEPT ![id].title = data.title]

\* prisma.resource.delete({ where: { id } })
deleteAsync(id) == [i \in DOMAIN resources \ {id} |-> resources[i]]

\* The where clause of a listing: the owner filter, 0 when there is none
OwnerFilter_Everyone(requestingUserId, requestingUserRole) == [userId |-> 0]

OwnerFilter(requestingUserId, requestingUserRole) ==
    [userId |-> IF requestingUserRole # "ADMIN" THEN requestingUserId ELSE 0]

\* The ids of the rows a where clause selects
Matching(where) ==
    {id \in DOMAIN resources : where.userId \in {0, resources[id].userId}}

\* orderBy: { createdAt: "desc" }: the rows of ids, newest first; a row
\* created later has the larger serial id
RECURSIVE Newest(_)
Newest(ids) ==
    IF ids = {} THEN <<>>
    ELSE LET m == CHOOSE i \in ids : \A j \in ids : j <= i
         IN  <<resources[m]>> \o Newest(ids \ {m})

\* prisma.resource.findMany({ skip, take, where, orderBy })
ResourceRepository_findAllAsync(skip, take, where) ==
    LET all == Newest(Matching(where))
        end == IF skip + take < Len(all) THEN skip + take ELSE Len(all)
    IN  SubSeq(all, skip + 1, end)

\* prisma.resource.count({ where })
countAsync(where) == Cardinality(Matching(where))

\* tx.resource.create({ data: { title: data.title, ..., userId } })
tx_resource_create_BodyOwner(data, userId) ==
    (nextResourceId :> [id |-> nextResourceId, title |-> data.title,
                        userId |-> IF data.userId # 0 THEN data.userId ELSE userId])
        @@ resources

tx_resource_create(data, userId) ==
    (nextResourceId :> [id |-> nextResourceId, userId |-> userId, title |-> data.title])
        @@ resources

\* tx.user.update({ where: { id: userId }, data: { updatedAt: new Date() } })
tx_user_update(userId) == [updatedAt EXCEPT ![userId] = now]

\* prisma.$transaction when its callback throws after created was written:
\* the transaction is rolled back and the table is as it was
rolledBack_Partial(created) == created

rolledBack(created) == resources

\* prisma.user.update({ where: { id }, data: { refreshTokenHash } })
updateRefreshTokenHashAsync(userId, refreshTokenHash) ==
    [users EXCEPT ![userId].refreshTokenHash = refreshTokenHash]

\* The update with data { refreshTokenHash: undefined }, which prisma takes as
\* "leave the column alone"
clearRefreshTokenHashAsync_Undefined(userId) == users

\* prisma.user.update({ where: { id }, data: { refreshTokenHash: null } })
clearRefreshTokenHashAsync(userId) == [users EXCEPT ![userId].refreshTokenHash = NULL]

\* generateTokens draws one token id per token
generateTokens(userId, email, role) ==
    [accessToken |-> sign(userId, email, role, env.JWT_SECRET, JWT_ACCESS_EXPIRY, rng + 1),
     refreshToken |-> sign(userId, email, role, env.JWT_REFRESH_SECRET, JWT_REFRESH_EXPIRY, rng + 2)]

verifyRefreshToken(token) == verify(token, env.JWT_REFRESH_SECRET)

\* A request is accepted while fewer than MaxInFlight calls are suspended
Accepting == Cardinality(calls) < MaxInFlight

\* The call suspends at an await with locals l
Suspend(l) == calls' = calls \cup {l}

\* The suspended call c resumes and runs to its return
Finish(c) == calls' = calls \ {c}

\* A failure path that first ends the session of the user it looked up
Fail_ClearsSession(r) ==
    /\ last' = r
    /\ users' = IF r.userId \in DOMAIN users
                THEN [users EXCEPT ![r.userId].refreshTokenHash = NULL]
                ELSE users
    /\ UNCHANGED <<calls, rng>>

\* The call returns a failure before it has awaited any write
Fail(r) ==
    /\ last' = r
    /\ UNCHANGED <<users, calls, rng>>

RefreshTokensOf(userId) == {t \in issued.refresh : t.userId = userId}

----------------------------------------------------------------------------
\* The two entry points: the one that only has prisma behind it and the one
\* with Socket.io, BullMQ and Redis as well
Mains == {"prisma", "full"}

\* The backing services onCloseSignal disconnects, in the order of its steps
Services(main) ==
    IF main = "prisma" THEN <<"prisma">> ELSE <<"socket", "queue", "cache", "prisma">>

\* The server process once listen has returned: the listener accepts
\* connections, every backing service is connected, no signal has arrived.
\* main is the entry point in use, accepted the connections taken so far, runs
\* the onCloseSignal calls started (at: the step whose await the call is in,
\* hung: that await never settles), timers the force-shutdown timers armed,
\* log what the runs have done so far, exit the exit code (NotExited while the
\* process lives).
NotExited == -1

Boot(main) ==
    [main |-> main, listening |-> TRUE, accepted |-> 0,
     open |-> {Services(main)[i] : i \in 1..Len(Services(main))},
     signals |-> 0, runs |-> <<>>, timers |-> 0, log |-> <<>>, exit |-> NotExited]

Booted == Boot("prisma")

\* The state after construction: an empty users table, no request in flight,
\* and an environment with two different secrets of the required 32 characters

Init ==
    /\ users = <<>>
    /\ nextId = 1
    /\ env = [JWT_SECRET |-> AccessSecret, JWT_REFRESH_SECRET |-> RefreshSecret]
    /\ now = 0
    /\ rng = 0
    /\ issued = [access |-> {}, refresh |-> {}]
    /\ calls = {}
    /\ last = NoResp
    /\ dead = [rotated |-> {}, superseded |-> {}, loggedOut |-> {}]
    /\ resources = <<>>
    /\ nextResourceId = 1
    /\ updatedAt = <<>>
    /\ proc = Booted

\* envSchema: each secret is a string of at least 32 characters
MinSecretLen == 32

Secrets == {AccessSecret, RefreshSecret, "secret"}

envSchema(e) ==
    /\ Len(e.JWT_SECRET) >= MinSecretLen
    /\ Len(e.JWT_REFRESH_SECRET) >= MinSecretLen

\* The state after construction under any environment that envSchema accepts
InitEnv ==
    /\ users = <<>>
    /\ nextId = 1
    /\ env \in {e \in [JWT_SECRET : Secrets, JWT_REFRESH_SECRET : Secrets] : envSchema(e)}
    /\ now = 0
    /\ rng = 0
    /\ issued = [access |-> {}, refresh |-> {}]
    /\ calls = {}
    /\ last = NoResp
    /\ dead = [rotated |-> {}, superseded |-> {}, loggedOut |-> {}]
    /\ resources = <<>>
    /\ nextResourceId = 1
    /\ updatedAt = <<>>
    /\ proc = Booted

\* The instants at which the clock is read: the start, and the moment the
\* refresh tokens issued at the start expire
Instants == {t \in {0, JWT_REFRESH_EXPIRY} : t <= MaxTime}

Tick ==
    /\ \E t \in Instants : t > now /\ now' = t
    /\ UNCHANGED <<users, resources, nextId, env, nextResourceId, updatedAt, proc, rng, issued, calls, last, dead>>

----------------------------------------------------------------------------
\* registerAsync: findByEmailAsync, then hash and createUserAsync

Register(email, password) ==
    /\ Accepting
    /\ rng < MaxRand
    /\ \E ok \in BOOLEAN :
        IF ~ok
        THEN Fail(send([caught("register", "An error occurred while registering user.")
                            EXCEPT !.email = email]))
        ELSE IF findByEmailAsync(email) # NoUser
        THEN Fail(send([failure("register", "Email already in use", 400)
                            EXCEPT !.email = email]))
        ELSE /\ Suspend([Locals EXCEPT !.pc = "register_create",
                    !.user = [id |-> 0, email |-> email,
                              passwordHash |-> hashPassword(Chars(password), rng + 1),
                              role |-> "USER", refreshTokenHash |-> NULL]])
             /\ rng' = rng + 1
             /\ UNCHANGED <<users, last>>
    /\ UNCHANGED <<resources, nextId, env, nextResourceId, updatedAt, proc, now, issued, dead>>

\* prisma.user.create: the unique index on email rejects a duplicate, and the
\* serial key is consumed either way
RegisterCreate(c) ==
    /\ c.pc = "register_create"
    /\ \E ok \in BOOLEAN :
        IF ~ok
        THEN /\ last' = send([caught("register", "An error occurred while registering user.")
                                EXCEPT !.email = c.user.email])
             /\ UNCHANGED <<users, nextId>>
        ELSE IF UniqueViolation(c.user)
        THEN /\ last' = send([caught("register", "An error occurred while registering user.")
                                EXCEPT !.email = c.user.email, !.conflict = TRUE])
             /\ nextId' = nextId + 1
             /\ UNCHANGED users
        ELSE /\ users' = createUserAsync(c.user)
             /\ nextId' = nextId + 1
             /\ last' = send([NoResp EXCEPT !.op = "register", !.status = 201,
                    !.message = "User registered successfully",
                    !.user = sanitizeUser([c.user EXCEPT !.id = nextId]),
                    !.userId = nextId, !.email = c.user.email, !.wrote = TRUE])
    /\ Finish(c)
    /\ UNCHANGED <<resources, env, nextResourceId, updatedAt, proc, now, rng, issued, dead>>

----------------------------------------------------------------------------
\* loginAsync: findByEmailAsync, verify, generate and hash, then
\* updateRefreshTokenHashAsync

\* A login that tells an unknown email from a wrong password
Login_UserNotFound(email, password) ==
    /\ Accepting
    /\ rng + 3 <= MaxRand
    /\ \E ok \in BOOLEAN :
        LET user == findByEmailAsync(email) IN
        IF ~ok
        THEN Fail(login(caught("login", "An error occurred while logging in.")))
        ELSE IF user = NoUser
        THEN Fail(login(failure("login", "User not found", 404)))
        ELSE IF ~verifyPassword(Chars(password), user.passwordHash)
        THEN Fail(login([failure("login", "Invalid email or password", 401) EXCEPT
                        !.userId = user.id, !.before = user.refreshTokenHash]))
        ELSE LET tokens == generateTokens(user.id, user.email, user.role) IN
             /\ Suspend([Locals EXCEPT !.pc = "login_write", !.user = user,
                    !.accessToken = tokens.accessToken,
                    !.refreshToken = tokens.refreshToken,
                    !.hash = hashPassword(TokenString(tokens.refreshToken), rng + 3)])
             /\ rng' = rng + 3
             /\ UNCHANGED <<users, last>>
    /\ UNCHANGED <<resources, nextId, env, nextResourceId, updatedAt, proc, now, issued, dead>>

Login(email, password) ==
    /\ Accepting
    /\ rng + 3 <= MaxRand
    /\ \E ok \in BOOLEAN :
        LET user == findByEmailAsync(email) IN
        IF ~ok
        THEN Fail(login(caught("login", "An error occurred while logging in.")))
        ELSE IF user = NoUser
        THEN Fail(login(failure("login", "Invalid email or password", 401)))
        ELSE IF ~verifyPassword(Chars(password), user.passwordHash)
        THEN Fail(login([failure("login", "Invalid email or password", 401) EXCEPT
                        !.userId = user.id, !.before = user.refreshTokenHash]))
        ELSE LET tokens == generateTokens(user.id, user.email, user.role) IN
             /\ Suspend([Locals EXCEPT !.pc = "login_write", !.user = user,
                    !.accessToken = tokens.accessToken,
                    !.refreshToken = tokens.refreshToken,
                    !.hash = hashPassword(TokenString(tokens.refreshToken), rng + 3)])
             /\ rng' = rng + 3
             /\ UNCHANGED <<users, last>>
    /\ UNCHANGED <<resources, nextId, env, nextResourceId, updatedAt, proc, now, issued, dead>>

\* What a completed login retires: every refresh token handed out for the
\* user before it
Supersede(userId) ==
    [dead EXCEPT !.superseded = @ \cup {t.jti : t \in RefreshTokensOf(userId)},
                 !.loggedOut = @ \ {t.jti : t \in RefreshTokensOf(userId)}]

\* A login that does not await the write: the pair is returned whether or not
\* the update went through
LoginWrite_NotAwaited(c) ==
    /\ c.pc = "login_write"
    /\ \E ok \in BOOLEAN :
        LET userId == c.user.id IN
        /\ users' = IF ok /\ userId \in DOMAIN users
                    THEN [users EXCEPT ![userId].refreshTokenHash = c.hash]
                    ELSE users
        /\ issued' = [access |-> issued.access \cup {c.accessToken},
                      refresh |-> issued.refresh \cup {c.refreshToken}]
        /\ dead' = Supersede(userId)
        /\ last' = login([NoResp EXCEPT !.op = "login", !.status = 200,
               !.message = "Login successful",
               !.user = sanitizeUser(c.user), !.userId = userId,
               !.accessToken = c.accessToken, !.refreshToken = c.refreshToken,
               !.wrote = ok])
    /\ calls' = calls \ {c}
    /\ UNCHANGED <<resources, nextId, env, nextResourceId, updatedAt, proc, now, rng>>

LoginWrite(c) ==
    /\ c.pc = "login_write"
    /\ \E ok \in BOOLEAN :
        LET userId == c.user.id IN
        IF ~ok \/ userId \notin DOMAIN users
        THEN /\ last' = login([caught("login", "An error occurred while logging in.") EXCEPT
                            !.userId = userId])
             /\ UNCHANGED <<users, issued, dead>>
        ELSE /\ users' = updateRefreshTokenHashAsync(userId, c.hash)
             /\ issued' = [access |-> issued.access \cup {c.accessToken},
                           refresh |-> issued.refresh \cup {c.refreshToken}]
             /\ dead' = Supersede(userId)
             /\ last' = login([NoResp EXCEPT !.op = "login", !.status = 200,
                    !.message = "Login successful",
                    !.user = sanitizeUser(c.user), !.userId = userId,
                    !.accessToken = c.accessToken,
                    !.refreshToken = c.refreshToken,
                    !.wrote = TRUE, !.before = users[userId].refreshTokenHash])
    /\ Finish(c)
    /\ UNCHANGED <<resources, nextId, env, nextResourceId, updatedAt, proc, now, rng>>

----------------------------------------------------------------------------
\* AuthController.refresh and refreshTokenAsync: the cookie, verifyRefreshToken,
\* findByIdAsync, verify against the stored hash, generate and hash, then
\* updateRefreshTokenHashAsync

StaleAt(token) ==
    [rotated |-> token.jti \in dead.rotated,
     superseded |-> token.jti \in dead.superseded,
     loggedOut |-> token.jti \in dead.loggedOut]

Refresh_ReusesClaims(token) ==
    /\ Accepting
    /\ rng + 3 <= MaxRand
    /\ \E ok \in BOOLEAN :
        LET user == findByIdAsync(token.userId)
            r401 == [failure("refresh", "Invalid or expired refresh token", 401) EXCEPT
                        !.token = token, !.stale = StaleAt(token)]
        IN
        IF token = NoToken
        THEN Fail(failure("refresh", "Refresh token not found", 401))
        ELSE IF ~verifyRefreshToken(token)
        THEN Fail(refresh(r401))
        ELSE IF ~ok
        THEN Fail(refresh([caught("refresh", "An error occurred while refreshing token.")
                        EXCEPT !.token = token, !.stale = StaleAt(token)]))
        ELSE IF user = NoUser \/ user.refreshTokenHash = NULL
        THEN Fail(refresh([r401 EXCEPT !.userId = user.id]))
        ELSE IF ~verifyPassword(TokenString(token), user.refreshTokenHash)
        THEN Fail(refresh([r401 EXCEPT !.userId = user.id, !.before = user.refreshTokenHash]))
        ELSE LET tokens == generateTokens(token.userId, token.email, token.role) IN
             /\ Suspend([Locals EXCEPT !.pc = "refresh_write", !.user = user,
                    !.token = token, !.stale = StaleAt(token),
                    !.accessToken = tokens.accessToken,
                    !.refreshToken = tokens.refreshToken,
                    !.hash = hashPassword(TokenString(tokens.refreshToken), rng + 3)])
             /\ rng' = rng + 3
             /\ UNCHANGED <<users, last>>
    /\ UNCHANGED <<resources, nextId, env, nextResourceId, updatedAt, proc, now, issued, dead>>

Refresh(token) ==
    /\ Accepting
    /\ rng + 3 <= MaxRand
    /\ \E ok \in BOOLEAN :
        LET user == findByIdAsync(token.userId)
            r401 == [failure("refresh", "Invalid or expired refresh token", 401) EXCEPT
                        !.token = token, !.stale = StaleAt(token)]
        IN
        IF token = NoToken
        THEN Fail(failure("refresh", "Refresh token not found", 401))
        ELSE IF ~verifyRefreshToken(token)
        THEN Fail(refresh(r401))
        ELSE IF ~ok
        THEN Fail(refresh([caught("refresh", "An error occurred while refreshing token.")
                        EXCEPT !.token = token, !.stale = StaleAt(token)]))
        ELSE IF user = NoUser \/ user.refreshTokenHash = NULL
        THEN Fail(refresh([r401 EXCEPT !.userId = user.id]))
        ELSE IF ~verifyPassword(TokenString(token), user.refreshTokenHash)
        THEN Fail(refresh([r401 EXCEPT !.userId = user.id, !.before = user.refreshTokenHash]))
        ELSE LET tokens == generateTokens(user.id, user.email, user.role) IN
             /\ Suspend([Locals EXCEPT !.pc = "refresh_write", !.user = user,
                    !.token = token, !.stale = StaleAt(token),
                    !.accessToken = tokens.accessToken,
                    !.refreshToken = tokens.refreshToken,
                    !.hash = hashPassword(TokenString(tokens.refreshToken), rng + 3)])
             /\ rng' = rng + 3
             /\ UNCHANGED <<users, last>>
    /\ UNCHANGED <<resources, nextId, env, nextResourceId, updatedAt, proc, now, issued, dead>>

RefreshWrite(c) ==
    /\ c.pc = "refresh_write"
    /\ \E ok \in BOOLEAN :
        LET userId == c.user.id IN
        IF ~ok \/ userId \notin DOMAIN users
        THEN /\ last' = refresh([caught("refresh", "An error occurred while refreshing token.")
                            EXCEPT !.token = c.token, !.stale = c.stale,
                                   !.userId = userId])
             /\ UNCHANGED <<users, issued, dead>>
        ELSE /\ users' = updateRefreshTokenHashAsync(userId, c.hash)
             /\ issued' = [access |-> issued.access \cup {c.accessToken},
                           refresh |-> issued.refresh \cup {c.refreshToken}]
             /\ dead' = [dead EXCEPT !.rotated = @ \cup {c.token.jti}]
             /\ last' = refresh([NoResp EXCEPT !.op = "refresh", !.status = 200,
                    !.message = "Token refreshed successfully",
                    !.userId = userId, !.token = c.token, !.stale = c.stale,
                    !.raced = (c.token.jti \in dead.rotated /\ ~c.stale.rotated),
                    !.accessToken = c.accessToken,
                    !.refreshToken = c.refreshToken,
                    !.wrote = TRUE, !.before = users[userId].refreshTokenHash])
    /\ Finish(c)
    /\ UNCHANGED <<resources, nextId, env, nextResourceId, updatedAt, proc, now, rng>>

----------------------------------------------------------------------------
\* logoutAsync: clearRefreshTokenHashAsync; prisma's update throws when no row
\* has the id

Logout_WritesThenThrows(userId) ==
    /\ Accepting
    /\ \E ok \in BOOLEAN :
        IF userId \notin DOMAIN users
        THEN /\ last' = send([caught("logout", "An error occurred while logging out.")
                            EXCEPT !.userId = userId])
             /\ UNCHANGED <<users, dead>>
        ELSE /\ users' = clearRefreshTokenHashAsync(userId)
             /\ dead' = [dead EXCEPT !.loggedOut = @ \cup {t.jti : t \in RefreshTokensOf(userId)}]
             /\ last' = IF ~ok
                        THEN send([caught("logout", "An error occurred while logging out.")
                                    EXCEPT !.userId = userId])
                        ELSE send([NoResp EXCEPT !.op = "logout", !.status = 200,
                                    !.message = "Logout successful", !.userId = userId,
                                    !.wrote = TRUE, !.before = users[userId].refreshTokenHash])
    /\ UNCHANGED <<resources, nextId, env, nextResourceId, updatedAt, proc, now, rng, issued, calls>>

Logout(userId) ==
    /\ Accepting
    /\ \E ok \in BOOLEAN :
        IF ~ok \/ userId \notin DOMAIN users
        THEN /\ last' = send([caught("logout", "An error occurred while logging out.")
                            EXCEPT !.userId = userId])
             /\ UNCHANGED <<users, dead>>
        ELSE /\ users' = clearRefreshTokenHashAsync(userId)
             /\ dead' = [dead EXCEPT !.loggedOut = @ \cup {t.jti : t \in RefreshTokensOf(userId)}]
             /\ last' = send([NoResp EXCEPT !.op = "logout", !.status = 200,
                    !.message = "Logout successful", !.userId = userId,
                    !.wrote = TRUE, !.before = users[userId].refreshTokenHash])
    /\ UNCHANGED <<resources, nextId, env, nextResourceId, updatedAt, proc, now, rng, issued, calls>>

----------------------------------------------------------------------------
\* What a client can put in the refresh cookie: nothing, a made-up string, or
\* any token a response has handed out
Presentable == issued.refresh \cup issued.access \cup {Forged, NoToken}

\* The request validation lets a registration through only with a password of
\* at least 8 characters
ValidPasswords == {password \in Passwords : Len(password) >= MinPasswordLen}

Next ==
    \/ Tick
    \/ \E email \in Emails, password \in ValidPasswords : Register(email, password)
    \/ \E c \in calls : RegisterCreate(c)
    \/ \E email \in Emails, password \in Passwords : Login(email, password)
    \/ \E c \in calls : LoginWrite(c)
    \/ \E token \in Presentable : Refresh(token)
    \/ \E c \in calls : RefreshWrite(c)
    \/ \E userId \in UserIds : Logout(userId)

Spec == Init /\ [][Next]_vars

\* The same calls made one after the other: a request arrives only when the
\* previous call has returned
NextSeq == Next /\ Cardinality(calls) + Cardinality(calls') <= 1

SpecSeq == Init /\ [][NextSeq]_vars

\* The same calls under every accepted environment
SpecEnv == InitEnv /\ [][Next]_vars


----------------------------------------------------------------------------
\* getCurrentUserAsync and UserService (findAll, findById, createUser,
\* updateUser).  UserRepository reads and inserts into the same users table
\* with the same queries as AuthRepository.

GetCurrentUser_Unauthorized(userId) ==
    /\ Accepting
    /\ \E ok \in BOOLEAN :
        LET user == findByIdAsync(userId) IN
        IF ~ok
        THEN Fail(send([caught("me", "An error occurred while fetching user.")
                            EXCEPT !.userId = userId]))
        ELSE IF user = NoUser
        THEN Fail(send([failure("me", "Unauthorized", 401) EXCEPT !.userId = userId]))
        ELSE Fail(send([NoResp EXCEPT !.op = "me", !.status = 200,
                    !.message = "User fetched successfully",
                    !.user = sanitizeUser(user), !.userId = userId]))
    /\ UNCHANGED <<resources, nextId, env, nextResourceId, updatedAt, proc, now, issued, dead>>

GetCurrentUser(userId) ==
    /\ Accepting
    /\ \E ok \in BOOLEAN :
        LET user == findByIdAsync(userId) IN
        IF ~ok
        THEN Fail(send([caught("me", "An error occurred while fetching user.")
                            EXCEPT !.userId = userId]))
        ELSE IF user = NoUser
        THEN Fail(send([failure("me", "User not found", 404) EXCEPT !.userId = userId]))
        ELSE Fail(send([NoResp EXCEPT !.op = "me", !.status = 200,
                    !.message = "User fetched successfully",
                    !.user = sanitizeUser(user), !.userId = userId]))
    /\ UNCHANGED <<resources, nextId, env, nextResourceId, updatedAt, proc, now, issued, dead>>

FindAll ==
    /\ Accepting
    /\ \E ok \in BOOLEAN :
        IF ~ok
        THEN Fail(send(caught("findAll", "An error occurred while retrieving users.")))
        ELSE IF findAllAsync = {}
        THEN Fail(send([NoResp EXCEPT !.op = "findAll", !.status = 200,
                    !.message = "Users list is empty"]))
        ELSE Fail(send([NoResp EXCEPT !.op = "findAll", !.status = 200,
                    !.message = "Users found",
                    !.list = {UserService_sanitizeUser(user) : user \in findAllAsync}]))
    /\ UNCHANGED <<resources, nextId, env, nextResourceId, updatedAt, proc, now, issued, dead>>

FindById(id) ==
    /\ Accepting
    /\ \E ok \in BOOLEAN :
        LET user == findByIdAsync(id) IN
        IF ~ok
        THEN Fail(send([caught("findById", "An error occurred while finding user.")
                            EXCEPT !.userId = id]))
        ELSE IF user = NoUser
        THEN Fail(send([failure("findById", "User not found", 404) EXCEPT !.userId = id]))
        ELSE Fail(send([NoResp EXCEPT !.op = "findById", !.status = 200,
                    !.message = "User found",
                    !.user = UserService_sanitizeUser(user), !.userId = id]))
    /\ UNCHANGED <<resources, nextId, env, nextResourceId, updatedAt, proc, now, issued, dead>>

\* createUser: build the row, findByEmailAsync, then createUserAsync.  An
\* absent role ("") becomes USER.
CreateUser(userData) ==
    /\ Accepting
    /\ \E ok \in BOOLEAN :
        LET newUser == [id |-> 0, email |-> userData.email,
                        role |-> IF userData.role = "" THEN "USER" ELSE userData.role,
                        passwordHash |-> userData.passwordHash,
                        refreshTokenHash |-> NULL]
        IN
        IF ~ok
        THEN Fail(send([caught("createUser", "An error occurred while creating user.")
                            EXCEPT !.email = userData.email]))
        ELSE IF findByEmailAsync(userData.email) # NoUser
        THEN Fail(send([failure("createUser", "Email already in use", 400)
                            EXCEPT !.email = userData.email]))
        ELSE /\ Suspend([Locals EXCEPT !.pc = "createUser_create", !.user = newUser])
             /\ UNCHANGED <<users, last, rng>>
    /\ UNCHANGED <<resources, nextId, env, nextResourceId, updatedAt, proc, now, issued, dead>>

CreateUserInsert(c) ==
    /\ c.pc = "createUser_create"
    /\ \E ok \in BOOLEAN :
        IF ~ok
        THEN /\ last' = send([caught("createUser", "An error occurred while creating user.")
                                EXCEPT !.email = c.user.email])
             /\ UNCHANGED <<users, nextId>>
        ELSE IF UniqueViolation(c.user)
        THEN /\ last' = send([caught("createUser", "An error occurred while creating user.")
                                EXCEPT !.email = c.user.email, !.conflict = TRUE])
             /\ nextId' = nextId + 1
             /\ UNCHANGED users
        ELSE /\ users' = createUserAsync(c.user)
             /\ nextId' = nextId + 1
             /\ last' = send([NoResp EXCEPT !.op = "createUser", !.status = 201,
                    !.message = "User created successfully",
                    !.user = UserService_sanitizeUser([c.user EXCEPT !.id = nextId]),
                    !.userId = nextId, !.email = c.user.email, !.wrote = TRUE])
    /\ Finish(c)
    /\ UNCHANGED <<resources, env, nextResourceId, updatedAt, proc, now, rng, issued, dead>>

\* updateUser: findByIdAsync, then updateUserAsync with the row that was read
\* overlaid with the request's fields (here the role; "" is an absent role)
UpdateUser(id, userData) ==
    /\ Accepting
    /\ \E ok \in BOOLEAN :
        LET existingUser == findByIdAsync(id) IN
        IF ~ok
        THEN Fail(send([caught("updateUser", "An error occurred while updating user.")
                            EXCEPT !.userId = id]))
        ELSE IF existingUser = NoUser
        THEN Fail(send([failure("updateUser", "User not found", 404) EXCEPT !.userId = id]))
        ELSE /\ Suspend([Locals EXCEPT !.pc = "updateUser_update", !.id = id,
                    !.user = existingUser, !.role = userData.role])
             /\ UNCHANGED <<users, last, rng>>
    /\ UNCHANGED <<resources, nextId, env, nextResourceId, updatedAt, proc, now, issued, dead>>

\* The update returns no row when none has the id, and sanitizing the missing
\* row throws
UpdateUserWrite(c) ==
    /\ c.pc = "updateUser_update"
    /\ \E ok \in BOOLEAN :
        LET updatedUserData == [c.user EXCEPT !.role = IF c.role = "" THEN @ ELSE c.role] IN
        IF ~ok \/ c.id \notin DOMAIN users
        THEN /\ last' = send([caught("updateUser", "An error occurred while updating user.")
                                EXCEPT !.userId = c.id])
             /\ UNCHANGED users
        ELSE /\ users' = updateUserAsync(c.id, updatedUserData)
             /\ last' = send([NoResp EXCEPT !.op = "updateUser", !.status = 200,
                    !.message = "User updated successfully",
                    !.user = UserService_sanitizeUser(updatedUserData),
                    !.userId = c.id, !.wrote = TRUE,
                    !.before = users[c.id].refreshTokenHash])
    /\ Finish(c)
    /\ UNCHANGED <<resources, nextId, env, nextResourceId, updatedAt, proc, now, rng, issued, dead>>

DeleteUser(id) ==
    /\ Accepting
    /\ \E ok \in BOOLEAN :
        LET existingUser == findByIdAsync(id) IN
        IF ~ok
        THEN Fail(send([caught("deleteUser", "An error occurred while deleting user.")
                            EXCEPT !.userId = id]))
        ELSE IF existingUser = NoUser
        THEN Fail(send([failure("deleteUser", "User not found", 404) EXCEPT !.userId = id]))
        ELSE /\ Suspend([Locals EXCEPT !.pc = "deleteUser_delete", !.id = id])
             /\ UNCHANGED <<users, last, rng>>
    /\ UNCHANGED <<resources, nextId, env, nextResourceId, updatedAt, proc, now, issued, dead>>

\* The delete removes the row, if it is still there, and with it the
\* resources the user owns
DeleteUserWrite(c) ==
    /\ c.pc = "deleteUser_delete"
    /\ \E ok \in BOOLEAN :
        IF ~ok
        THEN /\ last' = send([caught("deleteUser", "An error occurred while deleting user.")
                                EXCEPT !.userId = c.id])
             /\ UNCHANGED <<users, resources, updatedAt>>
        ELSE /\ users' = deleteUserAsync(c.id)
             /\ resources' = cascade(c.id)
             /\ updatedAt' = [i \in DOMAIN updatedAt \ {c.id} |-> updatedAt[i]]
             /\ last' = send([NoResp EXCEPT !.op = "deleteUser", !.status = 200,
                    !.message = "User deleted successfully",
                    !.userId = c.id, !.wrote = TRUE])
    /\ Finish(c)
    /\ UNCHANGED <<nextId, env, nextResourceId, proc, now, rng, issued, dead>>

\* What the user-management callers send: an email, an optional role and a
\* password hash
UserInputs ==
    [email : Emails, role : {"", "ADMIN"},
     passwordHash : {hashSync(Chars("Password123!"), 0)}]

RoleInputs == [role : ROLES]

NextUsers ==
    \/ \E email \in Emails, password \in ValidPasswords : Register(email, password)
    \/ \E c \in calls : RegisterCreate(c)
    \/ \E email \in Emails, password \in Passwords : Login(email, password)
    \/ \E c \in calls : LoginWrite(c)
    \/ \E userId \in UserIds : GetCurrentUser(userId)
    \/ FindAll
    \/ \E id \in UserIds : FindById(id)
    \/ \E userData \in UserInputs : CreateUser(userData)
    \/ \E c \in calls : CreateUserInsert(c)
    \/ \E id \in UserIds, userData \in RoleInputs : UpdateUser(id, userData)
    \/ \E c \in calls : UpdateUserWrite(c)

\* Registration, login and user management on one users table, the calls
\* made one after the other
NextUsersSeq == NextUsers /\ Cardinality(calls) + Cardinality(calls') <= 1

SpecUsers == Init /\ [][NextUsersSeq]_vars

NextAuth ==
    \/ Next
    \/ \E userId \in UserIds : GetCurrentUser(userId)

\* Every AuthService operation, interleaved at awaits
SpecAuth == Init /\ [][NextAuth]_vars

\* Self-registration and admin creation of users, interleaved at their awaits
NextCreate ==
    \/ \E email \in Emails, password \in ValidPasswords : Register(email, password)
    \/ \E c \in calls : RegisterCreate(c)
    \/ \E userData \in UserInputs : CreateUser(userData)
    \/ \E c \in calls : CreateUserInsert(c)

SpecCreate == Init /\ [][NextCreate]_vars


----------------------------------------------------------------------------
\* ResourceService.findById, update and delete: findByIdAsync, the ownership
\* check, then the write.  prisma's update and delete throw when no row has
\* the id.

\* The role the users table holds for the actor
StoredRole(userId) == IF userId \in DOMAIN users THEN users[userId].role ELSE ""

ResourceFindById(id, requestingUserId, requestingUserRole) ==
    /\ Accepting
    /\ \E ok \in BOOLEAN :
        LET resource == ResourceRepository_findByIdAsync(id)
            r == [NoResp EXCEPT !.op = "resource.findById", !.id = id,
                    !.userId = requestingUserId, !.role = requestingUserRole]
        IN
        IF ~ok
        THEN Fail([r EXCEPT !.status = 500, !.threw = TRUE,
                    !.message = "An error occurred while finding resource."])
        ELSE IF resource = NoResource
        THEN Fail([r EXCEPT !.status = 404, !.message = "Resource not found"])
        ELSE IF requestingUserRole # "ADMIN" /\ resource.userId # requestingUserId
        THEN Fail([r EXCEPT !.status = 403, !.owner = resource.userId,
                    !.storedRole = StoredRole(requestingUserId),
                    !.message = "You do not have permission to access this resource"])
        ELSE Fail([r EXCEPT !.status = 200, !.owner = resource.userId,
                    !.storedRole = StoredRole(requestingUserId),
                    !.message = "Resource found", !.resource = resource])
    /\ UNCHANGED <<resources, nextId, env, nextResourceId, updatedAt, proc, now, issued, dead>>

ResourceUpdate_WritesBeforeCheck(id, data, requestingUserId, requestingUserRole) ==
    /\ Accepting
    /\ \E ok \in BOOLEAN :
        LET existing == ResourceRepository_findByIdAsync(id)
            r == [NoResp EXCEPT !.op = "resource.update", !.id = id,
                    !.userId = requestingUserId, !.role = requestingUserRole]
        IN
        IF ~ok
        THEN /\ Fail([r EXCEPT !.status = 500, !.threw = TRUE,
                    !.message = "An error occurred while updating resource."])
             /\ UNCHANGED resources
        ELSE IF existing = NoResource
        THEN /\ Fail([r EXCEPT !.status = 404, !.message = "Resource not found"])
             /\ UNCHANGED resources
        ELSE IF requestingUserRole # "ADMIN" /\ existing.userId # requestingUserId
        THEN /\ Fail([r EXCEPT !.status = 403, !.owner = existing.userId,
                    !.storedRole = StoredRole(requestingUserId),
                    !.message = "You do not have permission to update this resource"])
             /\ resources' = updateAsync(id, data)
        ELSE /\ Suspend([Locals EXCEPT !.pc = "resource_update", !.id = id,
                    !.title = data.title,
                    !.userId = requestingUserId, !.role = requestingUserRole,
                    !.owner = existing.userId,
                    !.storedRole = StoredRole(requestingUserId)])
             /\ UNCHANGED <<users, last, rng, resources>>
    /\ UNCHANGED <<nextId, env, nextResourceId, updatedAt, proc, now, issued, dead>>

ResourceUpdate(id, data, requestingUserId, requestingUserRole) ==
    /\ Accepting
    /\ \E ok \in BOOLEAN :
        LET existing == ResourceRepository_findByIdAsync(id)
            r == [NoResp EXCEPT !.op = "resource.update", !.id = id,
                    !.userId = requestingUserId, !.role = requestingUserRole]
        IN
        IF ~ok
        THEN Fail([r EXCEPT !.status = 500, !.threw = TRUE,
                    !.message = "An error occurred while updating resource."])
        ELSE IF existing = NoResource
        THEN Fail([r EXCEPT !.status = 404, !.message = "Resource not found"])
        ELSE IF requestingUserRole # "ADMIN" /\ existing.userId # requestingUserId
        THEN Fail([r EXCEPT !.status = 403, !.owner = existing.userId,
                    !.storedRole = StoredRole(requestingUserId),
                    !.message = "You do not have permission to update this resource"])
        ELSE /\ Suspend([Locals EXCEPT !.pc = "resource_update", !.id = id,
                    !.title = data.title,
                    !.userId = requestingUserId, !.role = requestingUserRole,
                    !.owner = existing.userId,
                    !.storedRole = StoredRole(requestingUserId)])
             /\ UNCHANGED <<users, last, rng>>
    /\ UNCHANGED <<resources, nextId, env, nextResourceId, updatedAt, proc, now, issued, dead>>

ResourceUpdateWrite(c) ==
    /\ c.pc = "resource_update"
    /\ \E ok \in BOOLEAN :
        LET r == [NoResp EXCEPT !.op = "resource.update", !.id = c.id,
                    !.userId = c.userId, !.role = c.role, !.owner = c.owner,
                    !.storedRole = c.storedRole]
            data == [title |-> c.title]
        IN
        IF ~ok \/ c.id \notin DOMAIN resources
        THEN /\ last' = [r EXCEPT !.status = 500, !.threw = TRUE,
                    !.message = "An error occurred while updating resource."]
             /\ UNCHANGED resources
        ELSE /\ resources' = updateAsync(c.id, data)
             /\ last' = [r EXCEPT !.status = 200, !.wrote = TRUE,
                    !.message = "Resource updated successfully",
                    !.resource = updateAsync(c.id, data)[c.id]]
    /\ Finish(c)
    /\ UNCHANGED <<users, nextId, env, nextResourceId, updatedAt, proc, now, rng, issued, dead>>

\* A delete that lets a MODERATOR through as it does an ADMIN
ResourceDelete_ModeratorElevated(id, requestingUserId, requestingUserRole) ==
    /\ Accepting
    /\ \E ok \in BOOLEAN :
        LET existing == ResourceRepository_findByIdAsync(id)
            r == [NoResp EXCEPT !.op = "resource.delete", !.id = id,
                    !.userId = requestingUserId, !.role = requestingUserRole]
        IN
        IF ~ok
        THEN Fail([r EXCEPT !.status = 500, !.threw = TRUE,
                    !.message = "An error occurred while deleting resource."])
        ELSE IF existing = NoResource
        THEN Fail([r EXCEPT !.status = 404, !.message = "Resource not found"])
        ELSE IF requestingUserRole = "USER" /\ existing.userId # requestingUserId
        THEN Fail([r EXCEPT !.status = 403, !.owner = existing.userId,
                    !.storedRole = StoredRole(requestingUserId),
                    !.message = "You do not have permission to delete this resource"])
        ELSE /\ Suspend([Locals EXCEPT !.pc = "resource_delete", !.id = id,
                    !.userId = requestingUserId, !.role = requestingUserRole,
                    !.owner = existing.userId,
                    !.storedRole = StoredRole(requestingUserId)])
             /\ UNCHANGED <<users, last, rng>>
    /\ UNCHANGED <<resources, nextId, env, nextResourceId, updatedAt, proc, now, issued, dead>>

ResourceDelete(id, requestingUserId, requestingUserRole) ==
    /\ Accepting
    /\ \E ok \in BOOLEAN :
        LET existing == ResourceRepository_findByIdAsync(id)
            r == [NoResp EXCEPT !.op = "resource.delete", !.id = id,
                    !.userId = requestingUserId, !.role = requestingUserRole]
        IN
        IF ~ok
        THEN Fail([r EXCEPT !.status = 500, !.threw = TRUE,
                    !.message = "An error occurred while deleting resource."])
        ELSE IF existing = NoResource
        THEN Fail([r EXCEPT !.status = 404, !.message = "Resource not found"])
        ELSE IF requestingUserRole # "ADMIN" /\ existing.userId # requestingUserId
        THEN Fail([r EXCEPT !.status = 403, !.owner = existing.userId,
                    !.storedRole = StoredRole(requestingUserId),
                    !.message = "You do not have permission to delete this resource"])
        ELSE /\ Suspend([Locals EXCEPT !.pc = "resource_delete", !.id = id,
                    !.userId = requestingUserId, !.role = requestingUserRole,
                    !.owner = existing.userId,
                    !.storedRole = StoredRole(requestingUserId)])
             /\ UNCHANGED <<users, last, rng>>
    /\ UNCHANGED <<resources, nextId, env, nextResourceId, updatedAt, proc, now, issued, dead>>

ResourceDeleteWrite(c) ==
    /\ c.pc = "resource_delete"
    /\ \E ok \in BOOLEAN :
        LET r == [NoResp EXCEPT !.op = "resource.delete", !.id = c.id,
                    !.userId = c.userId, !.role = c.role, !.owner = c.owner,
                    !.storedRole = c.storedRole]
        IN
        IF ~ok \/ c.id \notin DOMAIN resources
        THEN /\ last' = [r EXCEPT !.status = 500, !.threw = TRUE,
                    !.message = "An error occurred while deleting resource."]
             /\ UNCHANGED resources
        ELSE /\ resources' = deleteAsync(c.id)
             /\ last' = [r EXCEPT !.status = 200, !.wrote = TRUE,
                    !.message = "Resource deleted successfully"]
    /\ Finish(c)
    /\ UNCHANGED <<users, nextId, env, nextResourceId, updatedAt, proc, now, rng, issued, dead>>

----------------------------------------------------------------------------
\* index.ts: the signal handlers.  A signal arms the force-shutdown timer and
\* starts onCloseSignal, which closes the listener and then awaits the
\* disconnect of each service in turn, each in its own try/catch; the
\* continuation of the last await calls process.exit(0).  An await that never
\* settles is one waiting for I/O in progress, which keeps the process alive
\* until the timer calls process.exit(1).

MaxSignals == 2       \* signals delivered in one run
MaxConnections == 1   \* connections taken in one run

Store == <<users, nextId, env, now, rng, issued, calls, last, dead, resources,
           nextResourceId, updatedAt>>

Alive == proc.exit = NotExited

\* The step a run goes to when the awaited disconnect rejected: the catch
\* logs the error and the call goes on
afterCatch_Rethrows(step) == 0

afterCatch(step) == step + 1

\* A client connects while the listener is open
Connect ==
    /\ Alive
    /\ proc.listening
    /\ proc.accepted < MaxConnections
    /\ proc' = [proc EXCEPT !.accepted = @ + 1]
    /\ UNCHANGED Store

\* process.on(signal): forceShutdown(), then onCloseSignal() up to its first
\* await
Signal(signal) ==
    /\ Alive
    /\ proc.signals < MaxSignals
    /\ proc' = [proc EXCEPT
            !.signals = @ + 1,
            !.timers = @ + 1,
            !.listening = FALSE,
            !.runs = Append(@, [at |-> 1, hung |-> FALSE]),
            !.log = Append(@, [run |-> Len(proc.runs) + 1, step |-> "server.close",
                               outcome |-> signal])]
    /\ UNCHANGED Store

\* The disconnect run r awaits settles, or turns out never to settle
Settle(r, outcome) ==
    /\ Alive
    /\ r \in DOMAIN proc.runs
    /\ ~proc.runs[r].hung
    /\ proc.runs[r].at \in 1..Len(Services(proc.main))
    /\ LET step == proc.runs[r].at
           service == Services(proc.main)[step]
           next == IF outcome = "rejected" THEN afterCatch(step) ELSE step + 1
           entry == [run |-> r, step |-> service, outcome |-> outcome]
       IN
       IF outcome = "hung"
       THEN proc' = [proc EXCEPT !.runs[r].hung = TRUE]
       ELSE proc' = [proc EXCEPT
                !.runs[r].at = next,
                !.log = Append(@, entry),
                !.open = IF outcome = "resolved" THEN @ \ {service} ELSE @,
                !.exit = IF next = Len(Services(proc.main)) + 1 THEN 0 ELSE @]
    /\ UNCHANGED Store

\* A force-shutdown timer fires
Timeout ==
    /\ Alive
    /\ proc.timers > 0
    /\ proc' = [proc EXCEPT !.exit = 1]
    /\ UNCHANGED Store

InitShutdown ==
    /\ users = <<>>
    /\ nextId = 1
    /\ env = [JWT_SECRET |-> AccessSecret, JWT_REFRESH_SECRET |-> RefreshSecret]
    /\ now = 0
    /\ rng = 0
    /\ issued = [access |-> {}, refresh |-> {}]
    /\ calls = {}
    /\ last = NoResp
    /\ dead = [rotated |-> {}, superseded |-> {}, loggedOut |-> {}]
    /\ resources = <<>>
    /\ nextResourceId = 1
    /\ updatedAt = <<>>
    /\ proc \in {Boot(main) : main \in Mains}

NextShutdown ==
    \/ Connect
    \/ \E signal \in {"SIGINT", "SIGTERM"} : Signal(signal)
    \/ \E r \in 1..MaxSignals, outcome \in {"resolved", "rejected", "hung"} : Settle(r, outcome)
    \/ Timeout

\* The process from start to exit; a timer that is due fires
SpecShutdown == InitShutdown /\ [][NextShutdown]_vars /\ WF_vars(Timeout)

----------------------------------------------------------------------------
\* ResourceService.findAll: Promise.all of findAllAsync and countAsync, two
\* queries the store answers one after the other, in either order

ResourceFindAll(params, requestingUserId, requestingUserRole) ==
    /\ Accepting
    /\ \E ok \in BOOLEAN, first \in {"findAllAsync", "countAsync"} :
        LET skip == (params.page - 1) * params.limit
            where == OwnerFilter(requestingUserId, requestingUserRole)
            r == [NoResp EXCEPT !.op = "resource.findAll",
                    !.userId = requestingUserId, !.role = requestingUserRole]
        IN
        IF ~ok
        THEN Fail([r EXCEPT !.status = 500, !.threw = TRUE,
                    !.message = "An error occurred while listing resources."])
        ELSE /\ Suspend([Locals EXCEPT !.pc = "resource_findAll",
                    !.userId = requestingUserId, !.role = requestingUserRole,
                    !.page = params.page, !.limit = params.limit, !.first = first,
                    !.items = IF first = "findAllAsync"
                              THEN ResourceRepository_findAllAsync(skip, params.limit, where)
                              ELSE <<>>,
                    !.total = IF first = "countAsync" THEN countAsync(where) ELSE 0])
             /\ UNCHANGED <<users, last, rng>>
    /\ UNCHANGED <<resources, nextId, env, nextResourceId, updatedAt, proc, now, issued, dead>>

\* The other query answers and Promise.all resolves
ResourceFindAllSettle(c) ==
    /\ c.pc = "resource_findAll"
    /\ \E ok \in BOOLEAN :
        LET skip == (c.page - 1) * c.limit
            where == OwnerFilter(c.userId, c.role)
            items == IF c.first = "findAllAsync" THEN c.items
                     ELSE ResourceRepository_findAllAsync(skip, c.limit, where)
            total == IF c.first = "countAsync" THEN c.total ELSE countAsync(where)
            r == [NoResp EXCEPT !.op = "resource.findAll",
                    !.userId = c.userId, !.role = c.role]
        IN
        IF ~ok
        THEN last' = [r EXCEPT !.status = 500, !.threw = TRUE,
                    !.message = "An error occurred while listing resources."]
        ELSE last' = [r EXCEPT !.status = 200, !.message = "Resources retrieved",
                    !.items = items,
                    !.pagination = [page |-> c.page, limit |-> c.limit, total |-> total,
                                    totalPages |-> (total + c.limit - 1) \div c.limit]]
    /\ Finish(c)
    /\ UNCHANGED <<users, resources, nextId, env, nextResourceId, updatedAt, proc, now, rng, issued, dead>>

----------------------------------------------------------------------------
\* ResourceService.create: one interactive transaction that inserts the
\* resource and then touches the owner's updatedAt.  Its writes become visible
\* together at the commit, so the call is one step; a throw of either
\* statement rolls everything back, except that the serial key the insert
\* drew is not handed out again.

MaxResourceId == 3   \* last id the resources' serial key hands out

ResourceCreate(data, userId) ==
    /\ Accepting
    /\ nextResourceId <= MaxResourceId
    /\ \E thrown \in {"nothing", "tx.resource.create", "tx.user.update"} :
        LET created == tx_resource_create(data, userId)
            r == [NoResp EXCEPT !.op = "resource.create", !.userId = userId,
                    !.data = data]
        IN
        IF thrown = "tx.resource.create" \/ userId \notin DOMAIN users
        THEN /\ last' = [r EXCEPT !.status = 500, !.threw = TRUE,
                    !.message = "An error occurred while creating resource."]
             /\ UNCHANGED <<resources, nextResourceId, updatedAt>>
        ELSE IF thrown = "tx.user.update"
        THEN /\ last' = [r EXCEPT !.status = 500, !.threw = TRUE,
                    !.message = "An error occurred while creating resource."]
             /\ resources' = rolledBack(created)
             /\ nextResourceId' = nextResourceId + 1
             /\ UNCHANGED updatedAt
        ELSE /\ last' = [r EXCEPT !.status = 201, !.wrote = TRUE,
                    !.message = "Resource created successfully",
                    !.id = nextResourceId, !.resource = created[nextResourceId]]
             /\ resources' = created
             /\ nextResourceId' = nextResourceId + 1
             /\ updatedAt' = tx_user_update(userId)
    /\ UNCHANGED <<users, nextId, env, proc, now, rng, issued, calls, dead>>

----------------------------------------------------------------------------
\* The seeded database: an ADMIN and a USER, each owning one resource

SEED_ROUNDS == 10

SeedUsers ==
    <<[id |-> 1, email |-> "admin@starterkit.dev", role |-> "ADMIN",
       passwordHash |-> [cost |-> SEED_ROUNDS, salt |-> 0,
                         digest |-> BcryptKey(Chars("Admin@1234"))],
       refreshTokenHash |-> NULL],
      [id |-> 2, email |-> "user@starterkit.dev", role |-> "USER",
       passwordHash |-> [cost |-> SEED_ROUNDS, salt |-> 0,
                         digest |-> BcryptKey(Chars("User@1234"))],
       refreshTokenHash |-> NULL]>>

SeedResources ==
    <<[id |-> 1, userId |-> 1, title |-> "Getting Started Guide"],
      [id |-> 2, userId |-> 2, title |-> "Draft Article"]>>

InitSeed ==
    /\ users = SeedUsers
    /\ nextId = Len(SeedUsers) + 1
    /\ env = [JWT_SECRET |-> AccessSecret, JWT_REFRESH_SECRET |-> RefreshSecret]
    /\ now = 0
    /\ rng = 0
    /\ issued = [access |-> {}, refresh |-> {}]
    /\ calls = {}
    /\ last = NoResp
    /\ dead = [rotated |-> {}, superseded |-> {}, loggedOut |-> {}]
    /\ resources = SeedResources
    /\ nextResourceId = Len(SeedResources) + 1
    /\ updatedAt = [id \in DOMAIN SeedUsers |-> 0]
    /\ proc = Booted

\* The ids a request names: those of the seeded resources, present or deleted
ResourceIds == 1..Len(SeedResources)

ActorIds == 1..Len(SeedUsers)

ResourceInputs == [title : {"edited"}]

NextRes ==
    \/ \E id \in ResourceIds, requestingUserId \in ActorIds, requestingUserRole \in ROLES :
        ResourceFindById(id, requestingUserId, requestingUserRole)
    \/ \E id \in ResourceIds, data \in ResourceInputs,
          requestingUserId \in ActorIds, requestingUserRole \in ROLES :
        ResourceUpdate(id, data, requestingUserId, requestingUserRole)
    \/ \E c \in calls : ResourceUpdateWrite(c)
    \/ \E id \in ResourceIds, requestingUserId \in ActorIds, requestingUserRole \in ROLES :
        ResourceDelete(id, requestingUserId, requestingUserRole)
    \/ \E c \in calls : ResourceDeleteWrite(c)

\* The resource service called by every actor on the seeded database
SpecRes == InitSeed /\ [][NextRes]_vars

MaxPage == 2
MaxLimit == 2

\* The query of a listing after PaginationQuerySchema
ListInputs == [page : 1..MaxPage, limit : 1..MaxLimit]

\* The body of a create: a title and, for a client that tries, an owner
CreateInputs == [title : {"new"}, userId : {0, 1}]

\* The seeded users as actors, each with the role the seed gave them
SeedActors == {[userId |-> id, role |-> SeedUsers[id].role] : id \in ActorIds}

NextList ==
    \/ \E params \in ListInputs, user \in SeedActors :
        ResourceFindAll(params, user.userId, user.role)
    \/ \E c \in calls : ResourceFindAllSettle(c)
    \/ \E data \in CreateInputs, user \in SeedActors : ResourceCreate(data, user.userId)

\* Listing and creating resources on the seeded database
SpecList == InitSeed /\ [][NextList]_vars

NextTx ==
    \/ Tick
    \/ \E data \in CreateInputs, user \in SeedActors : ResourceCreate(data, user.userId)
    \/ \E id \in ResourceIds, user \in SeedActors : ResourceDelete(id, user.userId, user.role)
    \/ \E c \in calls : ResourceDeleteWrite(c)

\* Creating and deleting resources on the seeded database while time passes
SpecTx == InitSeed /\ [][NextTx]_vars

----------------------------------------------------------------------------
\* The resource routes: authenticateJwt, then ResourceController, which hands
\* the service the userId and role of req.user

\* authenticateJwt: the bearer token verifies against the access secret, and
\* req.user is then the token's claims
authenticateJwt(token) == verify(token, env.JWT_SECRET)

\* The request is refused before it reaches a controller
Unauthenticated(token) ==
    /\ Accepting
    /\ ~authenticateJwt(token)
    /\ Fail([failure("authenticateJwt", "Unauthorized", 401) EXCEPT !.token = token])
    /\ UNCHANGED <<resources, nextId, env, nextResourceId, updatedAt, proc, now, issued, dead>>

getById(token, id) ==
    /\ authenticateJwt(token)
    /\ ResourceFindById(id, token.userId, token.role)

update(token, id, data) ==
    /\ authenticateJwt(token)
    /\ ResourceUpdate(id, data, token.userId, token.role)

remove(token, id) ==
    /\ authenticateJwt(token)
    /\ ResourceDelete(id, token.userId, token.role)

SeedEmails == {SeedUsers[id].email : id \in ActorIds}

SeedPasswords == {"Admin@1234", "User@1234"}

\* What a client can send as the bearer token: a made-up string or any access
\* token a response has handed out
Bearer == issued.access \cup {Forged}

\* The account whose role is changed while it holds tokens: the seeded admin
ManagedIds == {id \in ActorIds : SeedUsers[id].role = "ADMIN"}

\* The resource the requests name: the one the seeded user owns, so that the
\* admin asks for another's resource and the user for their own
RequestedIds == {id \in ResourceIds : SeedResources[id].userId \notin ManagedIds}

NextApp ==
    \/ \E email \in SeedEmails, password \in SeedPasswords : Login(email, password)
    \/ \E c \in calls : LoginWrite(c)
    \/ \E id \in ManagedIds, userData \in RoleInputs : UpdateUser(id, userData)
    \/ \E c \in calls : UpdateUserWrite(c)
    \/ \E token \in Bearer : Unauthenticated(token)
    \/ \E token \in Bearer, id \in RequestedIds : getById(token, id)
    \/ \E token \in Bearer, id \in RequestedIds, data \in ResourceInputs : update(token, id, data)
    \/ \E c \in calls : ResourceUpdateWrite(c)
    \/ \E token \in Bearer, id \in RequestedIds : remove(token, id)
    \/ \E c \in calls : ResourceDeleteWrite(c)

\* Requests served one at a time
NextAppSeq == NextApp /\ Cardinality(calls) + Cardinality(calls') <= 1

\* Login, user update and the resource routes on the seeded database
SpecApp == InitSeed /\ [][NextAppSeq]_vars

----------------------------------------------------------------------------
\* Token rotation while an administrator changes the role of the account

ManagedEmails == {SeedUsers[id].email : id \in ManagedIds}

NextRotate ==
    \/ \E email \in ManagedEmails, password \in SeedPasswords : Login(email, password)
    \/ \E c \in calls : LoginWrite(c)
    \/ \E token \in Presentable : Refresh(token)
    \/ \E c \in calls : RefreshWrite(c)
    \/ \E id \in ManagedIds, userData \in RoleInputs : UpdateUser(id, userData)
    \/ \E c \in calls : UpdateUserWrite(c)

NextRotateSeq == NextRotate /\ Cardinality(calls) + Cardinality(calls') <= 1

\* Login, refresh and role changes on the seeded database, one call at a time
SpecRotate == InitSeed /\ [][NextRotateSeq]_vars

----------------------------------------------------------------------------
\* The profile of an account that an administrator may delete

\* GET /auth/profile: getCurrentUserAsync with the caller's own id
me(token) ==
    /\ authenticateJwt(token)
    /\ GetCurrentUser(token.userId)

NextMe ==
    \/ \E email \in SeedEmails, password \in SeedPasswords : Login(email, password)
    \/ \E c \in calls : LoginWrite(c)
    \/ \E token \in Bearer : Unauthenticated(token)
    \/ \E token \in Bearer : me(token)
    \/ \E id \in ActorIds \ ManagedIds : DeleteUser(id)
    \/ \E c \in calls : DeleteUserWrite(c)

\* Login, profile and user deletion on the seeded database, interleaved at
\* awaits
SpecMe == InitSeed /\ [][NextMe]_vars

----------------------------------------------------------------------------
\* The routes a user calls on their own account

\* PUT /auth/profile: the body goes to updateUser with the caller's own id
updateProfile(token, userData) ==
    /\ authenticateJwt(token)
    /\ UpdateUser(token.userId, userData)

\* POST /auth/logout behind authenticateJwt
logout(token) ==
    /\ authenticateJwt(token)
    /\ Logout(token.userId)

\* The account that uses them: the seeded plain user
SelfEmails == {SeedUsers[id].email : id \in ActorIds \ ManagedIds}

NextProfile ==
    \/ \E email \in SelfEmails, password \in SeedPasswords : Login(email, password)
    \/ \E c \in calls : LoginWrite(c)
    \/ \E token \in Bearer : Unauthenticated(token)
    \/ \E token \in Bearer : logout(token)
    \/ \E token \in Bearer, userData \in RoleInputs : updateProfile(token, userData)
    \/ \E c \in calls : UpdateUserWrite(c)

\* Login, logout and profile update on the seeded database, interleaved at
\* awaits
SpecProfile == InitSeed /\ [][NextProfile]_vars

----------------------------------------------------------------------------
\* Rotation and the single session

\* C1: rotation invalidation.  A refresh presenting a refresh token that an
\* earlier successful refresh already exchanged does not succeed: it is
\* answered 401 (or 500 when the storage fails).
C1_RotationInvalidation ==
    (last.op = "refresh" /\ last.stale.rotated) => last.status \in {401, 500}

\* The refresh token handed out last for the user
Latest(userId) ==
    CHOOSE t \in RefreshTokensOf(userId) : \A u \in RefreshTokensOf(userId) : u.jti <= t.jti

\* The refresh tokens handed out for the user that pass refreshTokenAsync's
\* check against the stored session hash
Passing(userId) ==
    {t \in RefreshTokensOf(userId) :
        verifyPassword(TokenString(t), users[userId].refreshTokenHash)}

\* C2: single valid token.  For every user: with a null session hash no
\* refresh token naming the user passes the check against it; with a non-null
\* one exactly one of the refresh tokens ever issued for the user passes, the
\* most recently issued.
C2_SingleValidToken ==
    \A userId \in DOMAIN users :
        IF users[userId].refreshTokenHash = NULL
        THEN Passing(userId) = {}
        ELSE RefreshTokensOf(userId) # {} => Passing(userId) = {Latest(userId)}

\* C3: of two concurrent refresh calls presenting the same refresh token at
\* most one succeeds: no refresh succeeds with a token that another refresh,
\* completing while this one was suspended, has exchanged.
C3_ConcurrentRefreshExclusive ==
    ~(last.op = "refresh" /\ last.status = 200 /\ last.raced)

\* C4: single active session.  A refresh presenting a refresh token that was
\* issued before a login of the same user completed does not succeed.
C4_LoginInvalidatesEarlier ==
    (last.op = "refresh" /\ last.stale.superseded) => last.status \in {401, 500}

\* The secrets that get hashed: passwords and issued refresh tokens
Hashable == {Chars(password) : password \in Passwords} \cup {TokenString(t) : t \in issued.refresh}

\* C5: the hasher distinguishes inputs.  verify(x, hash(x)) is true and
\* verify(y, hash(x)) is false for every y different from x, over passwords
\* and issued refresh tokens.
C5_HasherDistinguishes ==
    \A x \in Hashable, y \in Hashable :
        verifyPassword(y, hashPassword(x, 1)) <=> (x = y)

\* C6: after a logout completed, a refresh presenting a refresh token issued
\* for the user before it does not succeed, until a new login succeeds.
C6_LogoutInvalidates ==
    (last.op = "refresh" /\ last.stale.loggedOut) => last.status \in {401, 500}

\* C7: a refresh that writes a new session hash replaces a non-null hash that
\* matches the token it presented.
C7_RefreshReplacesVerifiedHash ==
    (last.op = "refresh" /\ last.status = 200) =>
        /\ last.before # NULL
        /\ verifyPassword(TokenString(last.token), last.before)

----------------------------------------------------------------------------
\* Logout, failures and the order of write and response

\* C8: logout is idempotent.  Whatever the session state it starts from, a
\* logout of an existing user whose repository call does not throw answers 200
\* and leaves the stored session hash null; a second logout in sequence finds
\* it null and does the same.
C8_LogoutIdempotent ==
    (last.op = "logout" /\ ~last.threw) =>
        /\ last.status = 200
        /\ last.userId \in DOMAIN users
        /\ users[last.userId].refreshTokenHash = NULL

\* A logout answered 200 that found the session hash already null, after a
\* session had existed: the second of two logouts
C8_Witness ==
    /\ last.op = "logout" /\ last.status = 200
    /\ last.before = NULL
    /\ issued.refresh # {}

\* C9: a step that answers 401 (login with an unknown email or a wrong
\* password, refresh failing any of its checks) leaves the users table as it
\* was.
C9_UnauthorizedWritesNothing == [][last'.status = 401 => users' = users]_vars

\* A login refused with 401 while the user has an active session
C9_Witness ==
    /\ last.op = "login" /\ last.status = 401
    /\ last.userId \in DOMAIN users
    /\ last.before # NULL
    /\ users[last.userId].refreshTokenHash = last.before

\* C10: login and refresh hand out a token pair exactly when they answer 200,
\* and then the write has been done: the stored session hash is non-null and
\* verifies against the returned refresh token.
C10_WriteBeforeResponse ==
    last.op \in {"login", "refresh"} =>
        /\ (last.refreshToken # NoToken) <=> (last.status = 200)
        /\ (last.accessToken # NoToken) <=> (last.status = 200)
        /\ last.status = 200 =>
            /\ last.wrote
            /\ last.userId \in DOMAIN users
            /\ users[last.userId].refreshTokenHash # NULL
            /\ verifyPassword(TokenString(last.refreshToken),
                              users[last.userId].refreshTokenHash)

\* A refresh that answered 200 with a rotated pair
C10_Witness ==
    /\ last.op = "refresh" /\ last.status = 200
    /\ last.refreshToken \in issued.refresh
    /\ last.refreshToken # last.token

----------------------------------------------------------------------------
\* The outcomes of refresh, login and register

\* The conditions under which refresh is to be refused, for a token presented
\* when calls are made one after the other: no cookie, a token that does not
\* verify against the refresh secret, a claimed user that is absent or has a
\* null session hash, or a token that is not the one whose hash is stored
\* (the stored hash is then the hash of the refresh token issued last).
RefreshRefused(token) ==
    \/ token = NoToken
    \/ ~verify(token, env.JWT_REFRESH_SECRET)
    \/ token.userId \notin DOMAIN users
    \/ users[token.userId].refreshTokenHash = NULL
    \/ token # Latest(token.userId)

\* C11: refresh answers 401 exactly when the cookie is missing, or the token
\* does not verify against the refresh secret, or the claimed user is absent
\* or has a null session hash, or the token does not match the stored hash;
\* in every other case, unless a store call throws, it answers 200 with a new
\* token pair.
C11_RefreshUnauthorizedExactly ==
    [][/\ (last'.op = "refresh" /\ last' # last /\ calls' = calls /\ ~last'.threw) =>
            /\ last'.status = 401
            /\ RefreshRefused(last'.token)
       /\ \A c \in calls \ calls' :
            (c.pc = "refresh_write" /\ ~last'.threw) =>
                /\ last'.status = 200
                /\ ~RefreshRefused(c.token)
                /\ last'.accessToken \in issued'.access \ issued.access
                /\ last'.refreshToken \in issued'.refresh \ issued.refresh
      ]_vars

\* What a client sees of a response: the status, the message and the data
Outward(r) == [status |-> r.status, message |-> r.message, data |-> r.body]

\* C12: login does not reveal whether an email exists.  The response to a
\* login with an unknown email and the response to a login with a known email
\* and a wrong password are the same: every login refused without a store
\* failure answers status 401, the one message and null data.
C12_LoginFailureUniform ==
    (last.op = "login" /\ last.status # 200 /\ ~last.threw) =>
        Outward(last) = [status |-> 401, message |-> "Invalid email or password",
                         data |-> NoBody]

\* A login refused for a wrong password of an existing user
C12_Witness ==
    /\ last.op = "login" /\ last.status = 401
    /\ last.userId \in DOMAIN users

\* A register call's store call failed for a reason other than a duplicate
StoreFailed(r) == r.threw /\ ~r.conflict

\* C13: register fails with 400 and creates nothing when a user with the
\* email exists; otherwise it creates exactly one user, with role USER and a
\* null session hash, and answers 201 with the sanitized user; register never
\* issues tokens.  (Calls made one after the other; a failing store aside.)
C13_RegisterContract ==
    [][/\ (last'.op = "register" /\ last' # last /\ calls' = calls /\ ~StoreFailed(last')) =>
            /\ last'.status = 400
            /\ \E id \in DOMAIN users : users[id].email = last'.email
            /\ users' = users
       /\ \A c \in calls' \ calls :
            c.pc = "register_create" =>
                \A id \in DOMAIN users : users[id].email # c.user.email
       /\ \A c \in calls \ calls' :
            (c.pc = "register_create" /\ ~StoreFailed(last')) =>
                /\ last'.status = 201
                /\ last'.userId \notin DOMAIN users
                /\ DOMAIN users' = DOMAIN users \cup {last'.userId}
                /\ \A id \in DOMAIN users : users'[id] = users[id]
                /\ users'[last'.userId].email = c.user.email
                /\ users'[last'.userId].role = "USER"
                /\ users'[last'.userId].refreshTokenHash = NULL
                /\ last'.user = [id |-> last'.userId, email |-> c.user.email, role |-> "USER"]
       /\ last'.op = "register" =>
            /\ last'.accessToken = NoToken /\ last'.refreshToken = NoToken
            /\ last'.cookie = NoToken
            /\ last' # last => issued' = issued
      ]_vars

\* C14: when two register calls for the same email run concurrently, at most
\* one answers 201 and the other fails as a conflict (400), not with an
\* internal error: a register whose insert the store rejects for the duplicate
\* email answers 400, and a 201 names the only row with that email.
C14_ConcurrentRegisterConflict ==
    last.op = "register" =>
        /\ last.conflict => last.status = 400
        /\ last.status = 201 =>
            {id \in DOMAIN users : users[id].email = last.email} = {last.userId}

\* C17: the refresh token never appears in a response body.  On every outcome
\* of login and refresh the body carries at most the user and the access
\* token; the refresh token travels only in the cookie, and the cookie is set
\* only when the service call succeeded, to the refresh token it returned.
C17_RefreshTokenOnlyInCookie ==
    last.op \in {"login", "refresh"} =>
        /\ last.body.refreshToken = NoToken
        /\ last.body.accessToken = last.accessToken
        /\ last.body.user \in {NoPublic, last.user}
        /\ last.cookie # NoToken => last.status = 200
        /\ last.cookie = last.refreshToken

\* A login answered 200: the body has the user and the access token, the
\* cookie the refresh token
C17_Witness ==
    /\ last.op = "login" /\ last.status = 200
    /\ last.cookie \in issued.refresh
    /\ last.body.accessToken \in issued.access

----------------------------------------------------------------------------
\* The two kinds of token

\* C18: access and refresh tokens are never interchangeable, under every
\* configuration the application accepts at start-up: a refresh presenting an
\* issued access token is answered 401, and no issued refresh token verifies
\* as an access token (against the access secret).
C18_TokensNotInterchangeable ==
    /\ (last.op = "refresh" /\ last.token \in issued.access) => last.status = 401
    /\ \A t \in issued.refresh : ~verify(t, env.JWT_SECRET)

----------------------------------------------------------------------------
\* The users table and what leaves it

\* C15: email uniqueness.  In every reachable state, after any interleaving
\* of register and createUser calls, no two stored users have the same email.
C15_EmailUnique ==
    \A i \in DOMAIN users, j \in DOMAIN users :
        users[i].email = users[j].email => i = j

\* One of two racing creations of the same email was rejected by the store
\* after the other had inserted its row
C15_Witness ==
    /\ last.conflict
    /\ \E id \in DOMAIN users : users[id].email = last.email

NoSecrets(user) == DOMAIN user \cap {"passwordHash", "refreshTokenHash"} = {}

\* C16: no secret leaves the core.  Every user object in a response of
\* register, login, currentUser, findAll, findById, createUser and updateUser,
\* in the service's answer and in the body sent, has neither the password hash
\* nor the session hash, whether the call succeeded or failed.
C16_NoSecretLeaves ==
    /\ NoSecrets(last.user)
    /\ NoSecrets(last.body.user)
    /\ \A user \in last.list : NoSecrets(user)

\* A login answered 200 with the user, whose row holds both hashes
C16_Witness ==
    /\ last.op = "login" /\ last.status = 200
    /\ last.body.user.id = last.userId
    /\ last.userId \in DOMAIN users
    /\ users[last.userId].passwordHash # NULL
    /\ users[last.userId].refreshTokenHash # NULL

----------------------------------------------------------------------------
\* Authorization on resources

ResourceOps == {"resource.findById", "resource.update", "resource.delete"}

\* C19: the authorization rule.  For every actor (role, id) and every
\* existing resource, findById, update and delete allow the operation if and
\* only if the role is ADMIN or the resource's owner is the actor; USER and
\* MODERATOR are treated alike; a denied operation answers 403 and an allowed
\* one, unless the store throws, answers 200.
C19_AuthorizationRule ==
    (last.op \in ResourceOps /\ last.owner # 0) =>
        LET canAccess == last.role = "ADMIN" \/ last.owner = last.userId IN
        /\ canAccess <=> last.status # 403
        /\ (canAccess /\ ~last.threw) => last.status = 200

\* A MODERATOR refused the delete of another user's resource
C19_Witness ==
    /\ last.op = "resource.delete" /\ last.status = 403
    /\ last.role = "MODERATOR"
    /\ last.owner \notin {0, last.userId}

\* C20: authorization decisions are consistent with the stored role.  At the
\* moment a read, update or delete of another user's resource is allowed, the
\* role the users table holds for the actor is ADMIN: the decision is made per
\* request and not from an earlier value of the role.
C20_DecisionUsesStoredRole ==
    (last.op \in ResourceOps /\ last.status = 200 /\ last.owner # last.userId) =>
        last.storedRole = "ADMIN"

----------------------------------------------------------------------------
\* Listing and creating resources

\* The rows an actor may see: all of them for ADMIN, otherwise their own
Visible(userId, role) ==
    {id \in DOMAIN resources : role = "ADMIN" \/ resources[id].userId = userId}

\* Page page of an actor's visible rows, newest first, limit rows to a page
RECURSIVE Descending(_)
Descending(ids) ==
    IF ids = {} THEN <<>>
    ELSE LET m == CHOOSE i \in ids : \A j \in ids : i >= j
         IN  <<m>> \o Descending(ids \ {m})

VisiblePage(userId, role, page, limit) ==
    LET ids == Descending(Visible(userId, role))
    IN  [i \in {i \in 1..limit : (page - 1) * limit + i <= Len(ids)} |->
            resources[ids[(page - 1) * limit + i]]]

\* C21: list scoping.  The items of a listing are the requested page of the
\* rows the actor may see (for a non-admin their own rows only, scoped before
\* skip and limit are applied; for ADMIN every row), and pagination.total is the
\* number of those rows, each as the table stood when its query was answered.
C21_ListScoping ==
    [][ /\ \A c \in calls' \ calls :
            c.pc = "resource_findAll" =>
                IF c.first = "findAllAsync"
                THEN c.items = VisiblePage(c.userId, c.role, c.page, c.limit)
                ELSE c.total = Cardinality(Visible(c.userId, c.role))
        /\ \A c \in calls \ calls' :
            (c.pc = "resource_findAll" /\ last'.status = 200) =>
                /\ last'.items = IF c.first = "findAllAsync" THEN c.items
                                 ELSE VisiblePage(c.userId, c.role, c.page, c.limit)
                /\ last'.pagination.total =
                        IF c.first = "countAsync" THEN c.total
                        ELSE Cardinality(Visible(c.userId, c.role))
                /\ c.role # "ADMIN" =>
                        \A i \in DOMAIN last'.items : last'.items[i].userId = c.userId
      ]_vars

\* A USER's listing that shows a row and counts fewer rows than the table has
C21_Witness ==
    /\ last.op = "resource.findAll" /\ last.status = 200
    /\ last.role = "USER"
    /\ Len(last.items) >= 1
    /\ last.pagination.total < Cardinality(DOMAIN resources)

\* C22: creation sets ownership to the actor.  Every row that appears in the
\* resources table was put there by a create answered 201 and is owned by the
\* actor of that create, whatever the body held; and a create is never
\* refused: it answers 201, or 500 when the store throws.
C22_CreateSetsOwner ==
    [][ /\ \A id \in DOMAIN resources' \ DOMAIN resources :
            /\ last'.op = "resource.create" /\ last'.status = 201
            /\ resources'[id].userId = last'.userId
            /\ last'.resource = resources'[id]
        /\ last'.op = "resource.create" =>
            \/ last'.status = 201 /\ ~last'.threw
            \/ last'.status = 500 /\ last'.threw
      ]_vars

\* A create whose body named another user as owner, stored for the actor
C22_Witness ==
    /\ last.op = "resource.create" /\ last.status = 201
    /\ last.data.userId \notin {0, last.userId}
    /\ last.id \in DOMAIN resources
    /\ resources[last.id].userId = last.userId

\* C26: creation is atomic.  A create either answers 201 having stored the new
\* resource and set the owner's updatedAt to the current time, or answers 500
\* having changed neither the resources nor any updatedAt.
C26_CreateAtomic ==
    [][ ( /\ last'.op = "resource.create"
          /\ <<last, resources, updatedAt, nextResourceId>>' #
                <<last, resources, updatedAt, nextResourceId>> ) =>
        \/ /\ last'.status = 201
            /\ last'.id \notin DOMAIN resources
            /\ DOMAIN resources' = DOMAIN resources \cup {last'.id}
            /\ \A id \in DOMAIN resources : resources'[id] = resources[id]
            /\ updatedAt' = [updatedAt EXCEPT ![last'.userId] = now]
        \/ /\ last'.status = 500
            /\ resources' = resources
            /\ updatedAt' = updatedAt
      ]_vars

\* A create that drew a key for its insert and was then rolled back: it
\* answered 500 and the table holds no row beyond the seeded ones
C26_Witness ==
    /\ last.op = "resource.create" /\ last.status = 500
    /\ nextResourceId > Len(SeedResources) + 1
    /\ DOMAIN resources \subseteq ResourceIds

----------------------------------------------------------------------------
\* Storage failures

AuthOps == {"register", "login", "refresh", "logout", "me"}

\* The messages of the catch blocks, none of which quotes the exception
OpaqueMessages ==
    {"An error occurred while registering user.", "An error occurred while logging in.",
     "An error occurred while refreshing token.", "An error occurred while logging out.",
     "An error occurred while fetching user."}

\* C23: storage failures leave no partial state.  A step in which register,
\* login, refresh, logout or currentUser ends because a store call threw
\* answers 500 with one of the fixed messages and leaves the users table as it
\* was; and a call that suspends at its one write has not written before.
C23_StorageFailureNoPartialState ==
    [][ /\ ( /\ last'.op \in AuthOps /\ last'.threw
              /\ (last' # last \/ calls' # calls \/ users' # users) ) =>
                /\ last'.status = 500
                /\ last'.message \in OpaqueMessages
                /\ last'.body = NoBody /\ last'.cookie = NoToken
                /\ users' = users
        /\ calls' \ calls # {} => users' = users
      ]_vars

\* A login whose write of the session hash threw
C23_Witness ==
    /\ last.op = "login" /\ last.threw /\ last.status = 500
    /\ last.userId \in DOMAIN users
    /\ last.accessToken = NoToken

----------------------------------------------------------------------------
\* Profile updates

\* C24: the session hash is changed only by login, refresh and logout.  The
\* write of an updateUser leaves every stored session hash as it was, so the
\* stored hash stays the one the last completed login, refresh or logout wrote.
C24_UpdateKeepsSessionHash ==
    [][ \A c \in calls \ calls' :
            c.pc = "updateUser_update" =>
                \A id \in DOMAIN users :
                    users'[id].refreshTokenHash = users[id].refreshTokenHash
      ]_vars

\* C29: no self-escalation of role.  No operation a user invokes on their own
\* account (login, logout, PUT /auth/profile) changes a stored role.
C29_NoSelfEscalation ==
    [][ \A id \in DOMAIN users : users'[id].role = users[id].role ]_vars

----------------------------------------------------------------------------
\* Claims of rotated tokens

Claims(t) == [userId |-> t.userId, email |-> t.email, role |-> t.role]

StoredClaims(userId) ==
    [userId |-> userId, email |-> users[userId].email, role |-> users[userId].role]

\* C28: the tokens a successful refresh issues carry the user id, email and
\* role of the row the refresh read from the store, not the claims of the
\* presented token; after a role change the next successful refresh yields
\* tokens with the new role.
C28_RefreshCarriesStoredClaims ==
    [][ /\ \A c \in calls' \ calls :
            c.pc = "refresh_write" =>
                /\ Claims(c.accessToken) = StoredClaims(c.token.userId)
                /\ Claims(c.refreshToken) = StoredClaims(c.token.userId)
        /\ \A c \in calls \ calls' :
            (c.pc = "refresh_write" /\ last'.status = 200) =>
                /\ last'.accessToken = c.accessToken
                /\ last'.refreshToken = c.refreshToken
                /\ Claims(last'.accessToken) = StoredClaims(c.token.userId)
      ]_vars

\* A successful refresh whose new tokens carry another role than the
\* presented token did
C28_Witness ==
    /\ last.op = "refresh" /\ last.status = 200
    /\ last.accessToken.role # last.token.role
    /\ last.refreshToken.role = users[last.userId].role

----------------------------------------------------------------------------
\* The current user

\* C25: currentUser(userId) answers 404 when no user has the id, a user
\* deleted after their access token was issued included, and otherwise 200
\* with the sanitized user (500 when the store throws); it writes nothing.
C25_CurrentUserNotFound ==
    [][ (last'.op = "me" /\ last' # last) =>
            /\ users' = users /\ resources' = resources /\ updatedAt' = updatedAt
            /\ \/ last'.threw /\ last'.status = 500
               \/ /\ last'.userId \notin DOMAIN users
                  /\ last'.status = 404 /\ last'.message = "User not found"
                  /\ last'.body = NoBody
               \/ /\ last'.userId \in DOMAIN users
                  /\ last'.status = 200
                  /\ last'.user = [id |-> last'.userId,
                                   email |-> users[last'.userId].email,
                                   role |-> users[last'.userId].role]
      ]_vars

\* The profile of a user who was deleted after their access token was issued
C25_Witness ==
    /\ last.op = "me" /\ last.status = 404
    /\ last.userId \notin DOMAIN users
    /\ \E t \in issued.access : t.userId = last.userId /\ authenticateJwt(t)

----------------------------------------------------------------------------
\* Refused writes

\* C30: denied writes change nothing.  The step in which a resource update or
\* delete is refused with 403 or 404 leaves the resources table, and the users
\* table, exactly as they were.
C30_DeniedWritesChangeNothing ==
    [][ ( /\ last'.op \in {"resource.update", "resource.delete"}
          /\ last'.status \in {403, 404}
          /\ (last' # last \/ resources' # resources) ) =>
            /\ resources' = resources
            /\ users' = users
            /\ ~last'.wrote
      ]_vars

\* An update refused with 403, the resource still as the seed created it
C30_Witness ==
    /\ last.op = "resource.update" /\ last.status = 403
    /\ last.id \in DOMAIN resources
    /\ resources[last.id] = SeedResources[last.id]

----------------------------------------------------------------------------
\* Shutdown

\* What run r has logged after closing the listener, in order
RECURSIVE StepsOf(_, _)
StepsOf(r, log) ==
    IF log = <<>> THEN <<>>
    ELSE IF Head(log).run = r /\ Head(log).step # "server.close"
         THEN <<Head(log).step>> \o StepsOf(r, Tail(log))
         ELSE StepsOf(r, Tail(log))

\* Once a signal has arrived the listener is closed; every run takes the
\* services in the documented order, a rejected disconnect included, and is
\* at the step after the last one it logged; exit code 0 means that some run
\* went through every service; exit code 1 means that a timer was armed and no
\* run got through.
ShutdownOrder ==
    LET services == Services(proc.main)
        finished(r) == StepsOf(r, proc.log) = services
    IN
    /\ proc.signals > 0 => ~proc.listening
    /\ proc.signals = 0 => proc.exit = NotExited /\ proc.log = <<>>
    /\ \A r \in DOMAIN proc.runs :
        /\ StepsOf(r, proc.log) = SubSeq(services, 1, Len(StepsOf(r, proc.log)))
        /\ proc.runs[r].at = Len(StepsOf(r, proc.log)) + 1
    /\ proc.exit = 0 => \E r \in DOMAIN proc.runs : finished(r)
    /\ proc.exit = 1 => proc.timers > 0 /\ \A r \in DOMAIN proc.runs : ~finished(r)

\* C27: graceful shutdown.  After SIGINT or SIGTERM the process accepts no
\* further connection, disconnects its services in the documented order
\* whether or not a disconnect fails, and exits with code 0 when a run gets
\* through; and it always exits in the end, with code 1 from the
\* force-shutdown timer when no run gets through.
C27_GracefulShutdown ==
    /\ []ShutdownOrder
    /\ [][proc.signals > 0 => proc'.accepted = proc.accepted]_vars
    /\ (proc.signals > 0) ~> (proc.exit # NotExited)

\* A graceful exit of the full entry point although a disconnect failed
C27_Witness ==
    /\ proc.main = "full" /\ proc.exit = 0
    /\ \E i \in DOMAIN proc.log : proc.log[i].outcome = "rejected"
    /\ proc.accepted > 0

====
